---- MODULE Spec2Model ----
(***************************************************************************)
(* Model of the PR_Bud security auditor front end: the streaming read loop *)
(* of startAnalysis, the extraction and parsing of the JSON answer, the    *)
(* dashboard's mapping of the raw object to a SecurityAnalysis and the     *)
(* per-line issue lookup of the diff view.                                 *)
(*                                                                         *)
(* Text is modelled as a sequence of tokens.  One token stands for one     *)
(* character (or byte, before decoding), except the P_* tokens, which each *)
(* stand for one complete, well formed JSON member such as                 *)
(* "summary":"ok", and F / J, which stand for the fence ``` and ```json.   *)
(* JavaScript values are records [t |-> type, v |-> value].                *)
(***************************************************************************)
EXTENDS Integers, Sequences, FiniteSets, TLC

VARIABLES pc, req, text, pos, reader, lastRead, pending, fullText,
          streamingText, object, isStreaming, error, snapshots, diff,
          show, view, stale, config, http, isLoading, submitted

\* The constants of lib/config.ts, the exchange the route handlers answer,
\* and the state of handleFetchPR.
apiVars == <<config, http, isLoading, submitted>>

vars == <<pc, req, text, pos, reader, lastRead, pending, fullText,
          streamingText, object, isStreaming, error, snapshots, diff, show, view, stale, apiVars>>

(* ---------------------------- bounds ----------------------------------- *)
MaxChunk == 3
MaxRequests == 2

(* ------------------------- JavaScript values --------------------------- *)
Undef == [t |-> "undef"]
JNull == [t |-> "null"]
Str(s) == [t |-> "str", v |-> s]
Num(n) == [t |-> "num", v |-> n]
Arr(a) == [t |-> "arr", v |-> a]
Obj(o) == [t |-> "obj", v |-> o]

\* a ?? b
Nullish(a, b) == IF a.t \in {"undef", "null"} THEN b ELSE a

\* Boolean(a)
Truthy(a) ==
  CASE a.t \in {"undef", "null"} -> FALSE
    [] a.t = "str" -> a.v # <<>>
    [] a.t = "text" -> a.len # 0
    [] a.t = "num" -> a.v # 0
    [] OTHER -> TRUE

(* ------------------- the producer's JSON members ----------------------- *)
\* One SecurityIssue object as JSON.parse returns it.
Issue(sev, line, path) ==
  Obj([severity |-> Str(<<sev>>), category |-> Str(<<"c">>),
       description |-> Str(<<"d">>), lineNumber |-> line, filePath |-> path,
       recommendation |-> Str(<<"r">>)])

IssueHigh2 == Issue("high", Num(2), JNull)
IssueLowA == Issue("low", JNull, Str(<<"a">>))
IssueOrphan == Issue("medium", JNull, JNull)

Stats(t, h, m, l) ==
  Obj([totalIssues |-> t, highRisk |-> h, mediumRisk |-> m, lowRisk |-> l])

\* The member tokens: each is one "key":value pair of the answer.
PairTokens == {"P_sum", "P_riskH", "P_riskX", "P_iss0", "P_iss1", "P_iss2",
               "P_issX", "P_stat", "P_statP"}

PairKey(tok) ==
  CASE tok = "P_sum" -> "summary"
    [] tok \in {"P_riskH", "P_riskX"} -> "overallRisk"
    [] tok \in {"P_iss0", "P_iss1", "P_iss2", "P_issX"} -> "issues"
    [] OTHER -> "statistics"

PairValue(tok) ==
  CASE tok = "P_sum" -> Str(<<"o", "k">>)
    [] tok = "P_riskH" -> Str(<<"high">>)
    [] tok = "P_riskX" -> Str(<<"critical">>)
    [] tok = "P_iss0" -> Arr(<<>>)
    [] tok = "P_iss1" -> Arr(<<IssueHigh2>>)
    [] tok = "P_iss2" -> Arr(<<IssueLowA, IssueHigh2, IssueOrphan>>)
    [] tok = "P_issX" -> Str(<<"none">>)
    [] tok = "P_stat" -> Stats(Num(3), Num(1), Num(1), Num(1))
    [] OTHER -> Stats(Num(5), Undef, Undef, Undef)

\* The object literal {} as JSON.parse returns it (no recognised key set).
EmptyObject ==
  [summary |-> Undef, overallRisk |-> Undef, issues |-> Undef,
   statistics |-> Undef]

(* --------------------------- TextDecoder ------------------------------- *)
\* decoder.decode(value, { stream: true }): E1 E2 is one two-byte code point
\* (decoded to the character "e2"); a lead byte at the end of a chunk is
\* withheld; a malformed sequence decodes to U+FFFD ("U").
RECURSIVE DecodeFrom(_, _, _, _)
DecodeFrom(bytes, i, pend, out) ==
  IF i > Len(bytes) THEN [out |-> out, pending |-> pend]
  ELSE LET b == bytes[i] IN
    IF pend THEN
      IF b = "E2" THEN DecodeFrom(bytes, i + 1, FALSE, Append(out, "e2"))
      ELSE DecodeFrom(bytes, i, FALSE, Append(out, "U"))
    ELSE
      IF b = "E1" THEN DecodeFrom(bytes, i + 1, TRUE, out)
      ELSE IF b = "E2" THEN DecodeFrom(bytes, i + 1, FALSE, Append(out, "U"))
      ELSE DecodeFrom(bytes, i + 1, FALSE, Append(out, b))

decode_stateless(bytes, pend) ==
  LET r == DecodeFrom(bytes, 1, FALSE, <<>>)
  IN [out |-> IF r.pending THEN Append(r.out, "U") ELSE r.out,
      pending |-> FALSE]

decode(bytes, pend) == DecodeFrom(bytes, 1, pend, <<>>)

(* ------------------- extraction of the JSON object --------------------- *)
RECURSIVE Remove(_, _)
Remove(s, tok) ==
  IF s = <<>> THEN <<>>
  ELSE IF Head(s) = tok THEN Remove(Tail(s), tok)
  ELSE <<Head(s)>> \o Remove(Tail(s), tok)

\* fullText.replace(/```json\s*/g, '').replace(/```\s*/g, '').trim()
StripFences(s) == Remove(Remove(s, "J"), "F")

Positions(s, tok) == {i \in 1..Len(s) : s[i] = tok}
MinOf(S) == CHOOSE x \in S : \A y \in S : x <= y
MaxOf(S) == CHOOSE x \in S : \A y \in S : x >= y

\* The result of a match that found nothing (null).
NoMatch == [found |-> FALSE, str |-> <<>>]

\* Mutation: the regular expression is anchored at the start of the text.
jsonMatch_anchored(s) ==
  IF s = <<>> \/ s[1] # "{" \/ Positions(s, "}") = {} THEN NoMatch
  ELSE [found |-> TRUE, str |-> SubSeq(s, 1, MaxOf(Positions(s, "}")))]

\* jsonText.match(/\{[\s\S]*\}/): greedy, from the first { to the last }.
jsonMatch(s) ==
  IF Positions(s, "{") = {} THEN NoMatch
  ELSE LET a == MinOf(Positions(s, "{"))
           closers == {i \in Positions(s, "}") : i > a}
       IN IF closers = {} THEN NoMatch
          ELSE [found |-> TRUE, str |-> SubSeq(s, a, MaxOf(closers))]

\* Steps "remove markdown code blocks" and "extract JSON object" together:
\* the candidate handed to JSON.parse, if any.
extract(full) == jsonMatch(StripFences(full))

(* ----------------------------- JSON.parse ------------------------------ *)
\* Grammar over the tokens:
\*   object ::= "{" [ member ("," member)* ] "}"
\*   member ::= P_* | "k" value          ("k" is an unrecognised key + colon)
\*   value  ::= object | string
\*   string ::= "q" ( char | "b" ("q" | "b") )* "q"     ("b" is a backslash)
\* A result with pos = 0 is a SyntaxError.
ParseFail == [pos |-> 0, obj |-> EmptyObject]

\* Position after the string's closing quote, scanning from j; 0 = error.
RECURSIVE ScanString(_, _)
ScanString(s, j) ==
  IF j > Len(s) THEN 0
  ELSE IF s[j] = "q" THEN j + 1
  ELSE IF s[j] = "b"
       THEN IF j + 1 <= Len(s) /\ s[j + 1] \in {"q", "b"}
            THEN ScanString(s, j + 2) ELSE 0
  ELSE ScanString(s, j + 1)

\* expect: "first" (member or "}"), "member", "sep" ("," or "}").
RECURSIVE ParseMembers(_, _, _, _)
ParseValue(s, i) ==
  IF i > Len(s) THEN ParseFail
  ELSE IF s[i] = "q" THEN [pos |-> ScanString(s, i + 1), obj |-> EmptyObject]
  ELSE IF s[i] = "{" THEN ParseMembers(s, i + 1, "first", EmptyObject)
  ELSE ParseFail

ParseMembers(s, i, expect, acc) ==
  IF i > Len(s) THEN ParseFail
  ELSE IF expect = "sep" THEN
    IF s[i] = "," THEN ParseMembers(s, i + 1, "member", acc)
    ELSE IF s[i] = "}" THEN [pos |-> i + 1, obj |-> acc]
    ELSE ParseFail
  ELSE IF expect = "first" /\ s[i] = "}" THEN [pos |-> i + 1, obj |-> acc]
  ELSE IF s[i] \in PairTokens THEN
    ParseMembers(s, i + 1, "sep",
                 [acc EXCEPT ![PairKey(s[i])] = PairValue(s[i])])
  ELSE IF s[i] = "k" THEN
    LET v == ParseValue(s, i + 1) IN
      IF v.pos = 0 THEN ParseFail ELSE ParseMembers(s, v.pos, "sep", acc)
  ELSE ParseFail

\* JSON.parse(jsonMatch[0]); the match starts with "{".
JSONparse(s) ==
  LET r == ParseValue(s, 1) IN
    IF r.pos = Len(s) + 1 THEN [ok |-> TRUE, obj |-> r.obj]
    ELSE [ok |-> FALSE, obj |-> EmptyObject]

\* parsed.issues && Array.isArray(parsed.issues)
IssuesIsArray(parsed) == Truthy(parsed.issues) /\ parsed.issues.t = "arr"

(* ----------------- dashboard: object -> SecurityAnalysis --------------- *)
NoObject == [set |-> FALSE, obj |-> EmptyObject]
SomeObject(o) == [set |-> TRUE, obj |-> o]

\* object.statistics?.totalIssues
Field(a, name) == IF a.t = "obj" THEN a.v[name] ELSE Undef

NoAnalysis == [isNull |-> TRUE]

analysis_recount(o) ==
  IF ~o.set THEN NoAnalysis
  ELSE LET is == Nullish(o.obj.issues, Arr(<<>>)) IN
       [isNull |-> FALSE,
        summary |-> Nullish(o.obj.summary, Str(<<>>)),
        overallRisk |-> Nullish(o.obj.overallRisk, Str(<<"low">>)),
        issues |-> is,
        statistics |->
          [totalIssues |-> IF is.t = "arr" THEN Num(Len(is.v)) ELSE Num(0),
           highRisk |-> Nullish(Field(o.obj.statistics, "highRisk"), Num(0)),
           mediumRisk |-> Nullish(Field(o.obj.statistics, "mediumRisk"), Num(0)),
           lowRisk |-> Nullish(Field(o.obj.statistics, "lowRisk"), Num(0))]]

\* const analysis = object ? { ... } : null
analysis(o) ==
  IF ~o.set THEN NoAnalysis
  ELSE [isNull |-> FALSE,
        summary |-> Nullish(o.obj.summary, Str(<<>>)),
        overallRisk |-> Nullish(o.obj.overallRisk, Str(<<"low">>)),
        issues |-> Nullish(o.obj.issues, Arr(<<>>)),
        statistics |->
          [totalIssues |-> Nullish(Field(o.obj.statistics, "totalIssues"), Num(0)),
           highRisk |-> Nullish(Field(o.obj.statistics, "highRisk"), Num(0)),
           mediumRisk |-> Nullish(Field(o.obj.statistics, "mediumRisk"), Num(0)),
           lowRisk |-> Nullish(Field(o.obj.statistics, "lowRisk"), Num(0))]]

(* ------------------------- dashboard: diff view ------------------------ *)
\* diff.split('\n'); "n" is the newline character.
RECURSIVE SplitLines(_, _)
SplitLines(s, cur) ==
  IF s = <<>> THEN <<cur>>
  ELSE IF Head(s) = "n" THEN <<cur>> \o SplitLines(Tail(s), <<>>)
  ELSE SplitLines(Tail(s), Append(cur, Head(s)))

split(d) == SplitLines(d, <<>>)

\* line.includes(path)
includes(line, path) ==
  \E i \in 0..(Len(line) - Len(path)) :
    \A j \in 1..Len(path) : line[i + j] = path[j]

IssueMatches_anyPath(issue, line, lineNumber) ==
  \/ (issue.v.lineNumber.t = "num" /\ issue.v.lineNumber.v = lineNumber)
  \/ (issue.v.filePath.t = "str" /\ includes(line, issue.v.filePath.v))

\* issue.lineNumber === lineNumber || (issue.filePath && line.includes(issue.filePath))
IssueMatches(issue, line, lineNumber) ==
  \/ (issue.v.lineNumber.t = "num" /\ issue.v.lineNumber.v = lineNumber)
  \/ (Truthy(issue.v.filePath) /\ issue.v.filePath.t = "str"
      /\ includes(line, issue.v.filePath.v))

findIssue_last(a, line, lineNumber) ==
  IF a.isNull THEN Undef
  ELSE LET is == a.issues.v
           hits == {k \in 1..Len(is) : IssueMatches(is[k], line, lineNumber)}
       IN IF hits = {} THEN Undef ELSE is[MaxOf(hits)]

\* analysis?.issues.find(...): the first matching issue, or undefined.
findIssue(a, line, lineNumber) ==
  IF a.isNull THEN Undef
  ELSE LET is == a.issues.v
           hits == {k \in 1..Len(is) : IssueMatches(is[k], line, lineNumber)}
       IN IF hits = {} THEN Undef ELSE is[MinOf(hits)]

\* The lines of the diff view, each with the issue shown on it.
annotatedLines(d, a) ==
  LET lines == split(d) IN
    [i \in 1..Len(lines) |->
       [index |-> i, line |-> lines[i], issue |-> findIssue(a, lines[i], i)]]

(* --------------------- dashboard: the rendered diff -------------------- *)
\* useState(true) for showAdded, showRemoved, showContext
ShowAll == [added |-> TRUE, removed |-> TRUE, context |-> TRUE]

\* line.startsWith(prefix)
startsWith(line, prefix) ==
  Len(line) >= Len(prefix) /\ SubSeq(line, 1, Len(prefix)) = prefix

kindOf_markerFirst(line) ==
  IF startsWith(line, <<"+">>) THEN "Added"
  ELSE IF startsWith(line, <<"-">>) THEN "Removed"
  ELSE IF startsWith(line, <<"DG">>) \/ startsWith(line, <<"IX">>)
    THEN "FileHeader"
  ELSE IF startsWith(line, <<"@", "@">>) THEN "HunkHeader"
  ELSE IF startsWith(line, <<" ">>) THEN "Context"
  ELSE "Metadata"

\* "DG" is the text "diff --git" and "IX" the text "index ".
\* The branch of the if-chain that renders the line.
kindOf(line) ==
  IF \/ startsWith(line, <<"DG">>) \/ startsWith(line, <<"IX">>)
     \/ startsWith(line, <<"-", "-", "-">>)
     \/ startsWith(line, <<"+", "+", "+">>) THEN "FileHeader"
  ELSE IF startsWith(line, <<"@", "@">>) THEN "HunkHeader"
  ELSE IF startsWith(line, <<"+">>) /\ ~startsWith(line, <<"+", "+", "+">>)
    THEN "Added"
  ELSE IF startsWith(line, <<"-">>) /\ ~startsWith(line, <<"-", "-", "-">>)
    THEN "Removed"
  ELSE IF startsWith(line, <<" ">>) THEN "Context"
  ELSE "Metadata"

\* line.substring(1)
substring1(line) == IF line = <<>> THEN <<>> ELSE Tail(line)

\* The text the branch renders: line.substring(1) after the marker of an
\* added, removed or context line, the whole line otherwise.
contentOf(line) ==
  IF kindOf(line) \in {"Added", "Removed", "Context"} THEN substring1(line)
  ELSE line

\* if (!showAdded) return null, and the same for removed and context.
shownWith(line, sh) ==
  CASE kindOf(line) = "Added" -> sh.added
    [] kindOf(line) = "Removed" -> sh.removed
    [] kindOf(line) = "Context" -> sh.context
    [] OTHER -> TRUE

lineNumberOf_zeroBased(index) == index

\* const lineNumber = index + 1
lineNumberOf(index) == index + 1

\* analysis?.issues.some(...)
hasIssue(a, line, lineNumber) ==
  IF a.isNull THEN FALSE
  ELSE \E k \in 1..Len(a.issues.v) :
         IssueMatches(a.issues.v[k], line, lineNumber)

\* One element of diff.split('\n').map((line, index) => ...); index is the
\* 0-based position the map passes.
renderLine(line, index, a, sh) ==
  [index |-> lineNumberOf(index), key |-> index, line |-> line,
   kind |-> kindOf(line), content |-> contentOf(line),
   shown |-> shownWith(line, sh),
   hasIssue |-> hasIssue(a, line, lineNumberOf(index)),
   issue |-> findIssue(a, line, lineNumberOf(index))]

\* The array the map returns (an element that is not shown is null in it).
DiffView(d, a, sh) ==
  LET lines == split(d) IN
    [i \in 1..Len(lines) |-> renderLine(lines[i], i - 1, a, sh)]

Snapshot(o, d, final) ==
  [analysis |-> analysis(o), annotatedLines |-> annotatedLines(d, analysis(o)),
   isFinal |-> final]

(* --------------------------- lib/config.ts ----------------------------- *)
\* The module has not been evaluated yet.
NotLoaded == [loaded |-> FALSE]

\* The value of a template literal part: `${undefined}` is "undefined".
Interpolate(a) == IF a.t = "str" THEN a.v ELSE <<"undefined">>

\* a || b
Or(a, b) == IF Truthy(a) THEN a ELSE b

\* process.env.NEXTAUTH_URL || process.env.VERCEL_URL ? `https://${...}` : '...'
\* The conditional operator binds weaker than ||.
NEXTAUTH_URL(env) ==
  IF Truthy(Or(env.NEXTAUTH_URL, env.VERCEL_URL))
    THEN Str(<<"https://">> \o Interpolate(env.VERCEL_URL))
    ELSE Str(<<"http://localhost:3000">>)

\* The exported constants for the environment env.
Config(env) ==
  [loaded |-> TRUE,
   GEMINI_KEY |-> Or(env.GEMINI_KEY, Str(<<>>)),
   GITHUB_KEY |-> Or(env.GITHUB_KEY, Str(<<>>)),
   NEXTAUTH_URL |-> NEXTAUTH_URL(env),
   env |-> env]

\* No request has been answered yet.
NoExchange == [route |-> "none"]

(* ------------------------- the route handlers -------------------------- *)
\* A diff text in a request body, known by its length and by whether it is
\* white space only; its prefixes are known by their length.
Text(len, blank) == [t |-> "text", len |-> len, blank |-> blank]

\* The number of characters of the diff that go into the prompt.
PromptLimit == 30000

\* diff.substring(0, 30000)
substring(d, len) == [d EXCEPT !.len = IF d.len < len THEN d.len ELSE len]

\* diff.trim() === ""
trimIsEmpty(d) == d.len = 0 \/ d.blank

\* request.json() rejects: the body is not JSON.
Malformed == [ok |-> FALSE]

\* What a handler answers to the request with this body: the status, the
\* diff in the body (undefined when the body has none), the outbound calls
\* it made in order, and the diff text in the prompt.
Response(body, route, status, d, calls, prompt) ==
  [body |-> body, route |-> route, status |-> status, diff |-> d,
   calls |-> calls, prompt |-> prompt]

\* An outbound call in the list of a response: where it went, whether it
\* succeeded and, for a fetch that was answered, the status.
Returned(to) == [to |-> to, ok |-> TRUE, status |-> 200]
Thrown(to) == [to |-> to, ok |-> FALSE, status |-> 0]
Fetched(fetched) == [to |-> "diff", ok |-> fetched.ok, status |-> fetched.status]

\* POST of the analyze route that uses streamText.  A TypeError of
\* diff.trim on a value that is no string is caught like every other error.
analyzeStreamText(body, outcome) ==
  IF ~body.ok THEN Response(body, "analyze", 500, Undef, <<>>, Undef)
  ELSE LET d == Or(body.diff, Text(0, TRUE)) IN
    IF ~Truthy(d) THEN Response(body, "analyze", 400, Undef, <<>>, Undef)
    ELSE IF d.t # "text" THEN Response(body, "analyze", 500, Undef, <<>>, Undef)
    ELSE IF trimIsEmpty(d) THEN Response(body, "analyze", 400, Undef, <<>>,
                                         Undef)
    ELSE IF outcome = "throw"
      THEN Response(body, "analyze", 500, Undef, <<Thrown("model")>>, d)
    ELSE Response(body, "analyze", 200, Undef, <<Returned("model")>>, d)

\* POST of the analyze route that uses streamObject and checks !diff.
analyzeStreamObject(body, outcome) ==
  IF ~body.ok THEN Response(body, "analyze", 500, Undef, <<>>, Undef)
  ELSE IF ~Truthy(body.diff) THEN Response(body, "analyze", 400, Undef, <<>>,
                                           Undef)
  ELSE IF body.diff.t # "text"
    THEN Response(body, "analyze", 500, Undef, <<>>, Undef)
  ELSE IF outcome = "throw"
    THEN Response(body, "analyze", 500, Undef, <<Thrown("model")>>,
                  substring(body.diff, PromptLimit))
  ELSE Response(body, "analyze", 200, Undef, <<Returned("model")>>,
                substring(body.diff, PromptLimit))

\* POST of the analyze route as it stands after the GitHub route: the diff
\* is not checked, so diff.substring throws for a diff that is no string.
analyzeUnchecked(body, outcome) ==
  IF ~body.ok THEN Response(body, "analyze", 500, Undef, <<>>, Undef)
  ELSE IF body.diff.t # "text"
    THEN Response(body, "analyze", 500, Undef, <<>>, Undef)
  ELSE IF outcome = "throw"
    THEN Response(body, "analyze", 500, Undef, <<Thrown("model")>>,
                  substring(body.diff, PromptLimit))
  ELSE Response(body, "analyze", 200, Undef, <<Returned("model")>>,
                substring(body.diff, PromptLimit))

\* A PR URL as tokens: "G" is github.com, "P" is pull, "9" a digit, "w" any
\* other run of characters without a slash, "/" the slash.
\* s[from..to] is a non-empty run without a slash: [^\/]+
IsSegment(s, from, to) ==
  from <= to /\ \A k \in from..to : s[k] # "/"

\* prUrl.match(/github\.com\/([^\/]+)\/([^\/]+)\/pull\/(\d+)/) is not null
prUrlMatches(s) ==
  \E a, b, c \in 1..Len(s) :
    /\ a + 1 < b /\ b < c /\ c + 3 <= Len(s)
    /\ s[a] = "G" /\ s[a + 1] = "/"
    /\ IsSegment(s, a + 2, b - 1) /\ s[b] = "/"
    /\ IsSegment(s, b + 1, c - 1) /\ s[c] = "/"
    /\ s[c + 1] = "P" /\ s[c + 2] = "/" /\ s[c + 3] = "9"

githubDiff_fallback(body, fetched, meta) ==
  IF ~body.ok THEN Response(body, "github", 500, Undef, <<>>, Undef)
  ELSE IF ~Truthy(body.prUrl)
    THEN Response(body, "github", 400, Undef, <<>>, Undef)
  ELSE IF body.prUrl.t # "str"
    THEN Response(body, "github", 500, Undef, <<>>, Undef)
  ELSE IF ~prUrlMatches(body.prUrl.v)
    THEN Response(body, "github", 400, Undef, <<>>, Undef)
  ELSE IF fetched.rejected
    THEN Response(body, "github", 500, Undef, <<Fetched(fetched)>>, Undef)
  ELSE IF ~fetched.ok
    THEN Response(body, "github", fetched.status, Undef,
                  <<Fetched(fetched)>>, Undef)
  ELSE IF meta = "throw"
    THEN Response(body, "github", 200, Str(fetched.text),
                  <<Fetched(fetched), Thrown("pulls.get")>>, Undef)
  ELSE Response(body, "github", 200, Str(fetched.text),
                <<Fetched(fetched), Returned("pulls.get")>>, Undef)

\* POST of the GitHub diff route.  fetched is the outcome of fetch(diffUrl),
\* meta that of octokit.rest.pulls.get.
githubDiff(body, fetched, meta) ==
  IF ~body.ok THEN Response(body, "github", 500, Undef, <<>>, Undef)
  ELSE IF ~Truthy(body.prUrl)
    THEN Response(body, "github", 400, Undef, <<>>, Undef)
  ELSE IF body.prUrl.t # "str"
    THEN Response(body, "github", 500, Undef, <<>>, Undef)
  ELSE IF ~prUrlMatches(body.prUrl.v)
    THEN Response(body, "github", 400, Undef, <<>>, Undef)
  ELSE IF fetched.rejected
    THEN Response(body, "github", 500, Undef, <<Fetched(fetched)>>, Undef)
  ELSE IF ~fetched.ok
    THEN Response(body, "github", fetched.status, Undef,
                  <<Fetched(fetched)>>, Undef)
  ELSE IF meta = "throw"
    THEN Response(body, "github", 500, Undef,
                  <<Fetched(fetched), Thrown("pulls.get")>>, Undef)
  ELSE Response(body, "github", 200, Str(fetched.text),
                <<Fetched(fetched), Returned("pulls.get")>>, Undef)

\* The locals of an invocation of startAnalysis that a later invocation has
\* overtaken: its body, read position, decoder state and fullText.
NoStale ==
  [active |-> FALSE, pc |-> "Ended", text |-> <<>>, pos |-> 0,
   pending |-> FALSE, fullText |-> <<>>]

(* --------------------------- the inputs -------------------------------- *)
\* Byte sequences the /api/analyze response may stream.
Texts ==
  { <<>>,
    <<"x", "x">>,
    <<"{", "P_sum">>,
    <<"{", "P_sum", "}">>,
    <<"{", "P_sum", ",", "}">>,
    <<"{", "P_sum", ",", "P_iss1", "}">>,
    <<"{", "P_riskX", ",", "P_iss2", "}">>,
    <<"{", "P_iss1", ",", "P_stat", "}">>,
    <<"{", "P_iss0", ",", "P_statP", "}">>,
    <<"{", "P_issX", "}">>,
    <<"J", "{", "P_iss0", "}", "F">>,
    <<"{", "P_iss1", "}", "x", "{", "}">>,
    <<"{", "k", "q", "}", "q", ",", "P_iss2", "}">>,
    <<"E1", "E2", "{", "P_iss0", "}">>,
    <<"{", "P_iss0", "}", "E1">> }

\* Diff texts shown in the diff view.
Diffs ==
  { <<"+", "+", "+", "a", "n", "+", "x">>,
    <<"-", "x", "n", " ", "a", "n">> }

(* --------------------------- startAnalysis ----------------------------- *)
Init ==
  /\ pc = "Idle"
  /\ req = 0
  /\ text = <<>>
  /\ pos = 0
  /\ reader = "none"
  /\ lastRead = "none"
  /\ pending = FALSE
  /\ fullText = <<>>
  /\ streamingText = <<>>
  /\ object = NoObject
  /\ isStreaming = FALSE
  /\ error = "null"
  /\ snapshots = <<>>
  /\ diff = <<>>
  /\ show = ShowAll
  /\ view = <<>>
  /\ stale = NoStale
  /\ config = NotLoaded
  /\ http = NoExchange
  /\ isLoading = FALSE
  /\ submitted = <<>>

\* handleSubmitDiff -> startAnalysis(diffToAnalyze), up to the fetch:
\* setError(null); setAnalysis(null); setDiff(...); setStreamingText("");
\* setIsStreaming(true).  t is the body the server will stream.
StartAnalysis(d, t) ==
  /\ pc \in {"Idle", "Done", "Errored"}
  /\ req < MaxRequests
  /\ pc' = "Reading"
  /\ req' = req + 1
  /\ text' = t
  /\ pos' = 0
  /\ reader' = "none"
  /\ lastRead' = "none"
  /\ pending' = FALSE
  /\ fullText' = <<>>
  /\ streamingText' = <<>>
  /\ object' = NoObject
  /\ isStreaming' = TRUE
  /\ error' = "null"
  /\ snapshots' = <<>>
  /\ diff' = d
  /\ UNCHANGED <<show, view, stale, apiVars>>

\* Mutation: the catch block swallows the failure.
Catch_silent(message) ==
  /\ pc' = "Errored"
  /\ error' = error
  /\ isStreaming' = FALSE

\* catch (err) { setError(err.message || ...); setIsStreaming(false); }
Catch(message) ==
  /\ pc' = "Errored"
  /\ error' = message
  /\ isStreaming' = FALSE

\* await fetch("/api/analyze") answers ok: response.body.getReader()
FetchOk ==
  /\ pc = "Reading" /\ reader = "none"
  /\ reader' = "open"
  /\ lastRead' = "response"
  /\ UNCHANGED <<pc, req, text, pos, pending, fullText, streamingText,
                 object, isStreaming, error, snapshots, diff, show, view, stale, apiVars>>

\* fetch rejects, or !response.ok: throw new Error("Failed to analyze code")
FetchFail ==
  /\ pc = "Reading" /\ reader = "none"
  /\ Catch("TransportError")
  /\ lastRead' = "error"
  /\ UNCHANGED <<req, text, pos, reader, pending, fullText, streamingText,
                 object, snapshots, diff, show, view, stale, apiVars>>

\* Mutation: the buffer is overwritten by the chunk instead of extended.
accumulate_overwrite(full, chunk) == chunk

\* fullText += chunk
accumulate(full, chunk) == full \o chunk

\* Mutation: every chunk publishes an analysis, parsed or not.
ReadChunk_publish(n) ==
  /\ pc = "Reading" /\ reader = "open"
  /\ pos + n <= Len(text)
  /\ LET dec == decode(SubSeq(text, pos + 1, pos + n), pending) IN
       /\ pending' = dec.pending
       /\ fullText' = accumulate(fullText, dec.out)
       /\ streamingText' = accumulate(fullText, dec.out)
  /\ pos' = pos + n
  /\ lastRead' = "chunk"
  /\ object' = SomeObject(EmptyObject)
  /\ snapshots' = Append(snapshots, Snapshot(SomeObject(EmptyObject), diff, FALSE))
  /\ UNCHANGED <<pc, req, text, reader, isStreaming, error, diff, show, view, stale, apiVars>>

\* One turn of the loop with done = false: a chunk of n bytes arrives.
ReadChunk(n) ==
  /\ pc = "Reading" /\ reader = "open"
  /\ pos + n <= Len(text)
  /\ LET dec == decode(SubSeq(text, pos + 1, pos + n), pending) IN
       /\ pending' = dec.pending
       /\ fullText' = accumulate(fullText, dec.out)
       /\ streamingText' = accumulate(fullText, dec.out)
  /\ pos' = pos + n
  /\ lastRead' = "chunk"
  /\ UNCHANGED <<pc, req, text, reader, object, isStreaming, error,
                 snapshots, diff, show, view, stale, apiVars>>

\* Mutation: the function returns at end-of-stream without the final pass.
ReadDone_return ==
  /\ pc = "Reading" /\ reader = "open"
  /\ pos = Len(text)
  /\ pc' = "Done"
  /\ lastRead' = "done"
  /\ UNCHANGED <<req, text, pos, reader, pending, fullText, streamingText,
                 object, isStreaming, error, snapshots, diff, show, view, stale, apiVars>>

\* reader.read() resolves with done = true: break.
ReadDone ==
  /\ pc = "Reading" /\ reader = "open"
  /\ pos = Len(text)
  /\ pc' = "Draining"
  /\ lastRead' = "done"
  /\ UNCHANGED <<req, text, pos, reader, pending, fullText, streamingText,
                 object, isStreaming, error, snapshots, diff, show, view, stale, apiVars>>

\* reader.read() rejects (the connection drops): the catch block runs.
ReadError ==
  /\ pc = "Reading" /\ reader = "open"
  /\ Catch("TransportError")
  /\ lastRead' = "error"
  /\ UNCHANGED <<req, text, pos, reader, pending, fullText, streamingText,
                 object, snapshots, diff, show, view, stale, apiVars>>

\* Step 4 on the complete text: strip the fences, match, JSON.parse, and
\* keep the object when parsed.issues is an array.
\*   "nomatch": no { ... } in the text       "throw": JSON.parse throws
\*   "set": setAnalysis(parsed) is called    "skip": parsed.issues is no array
parseStep(full) ==
  LET m == extract(full)
      parsed == JSONparse(m.str)
  IN IF ~m.found THEN [kind |-> "nomatch", obj |-> EmptyObject]
     ELSE IF ~parsed.ok THEN [kind |-> "throw", obj |-> EmptyObject]
     ELSE IF IssuesIsArray(parsed.obj) THEN [kind |-> "set", obj |-> parsed.obj]
     ELSE [kind |-> "skip", obj |-> parsed.obj]

\* Step 4, after the loop.  A SyntaxError of JSON.parse is caught by the
\* catch block of startAnalysis.  setAnalysis(parsed) is the one place where
\* an analysis is published: the snapshot it emits is the final one.  The
\* documented flow resets isStreaming in the catch block only.
ParseJSON ==
  /\ pc = "Draining"
  /\ LET r == parseStep(fullText)
     IN IF r.kind = "throw" THEN
          /\ Catch("SyntaxError")
          /\ UNCHANGED <<object, snapshots>>
        ELSE IF r.kind = "set" THEN
          /\ pc' = "Done"
          /\ object' = SomeObject(r.obj)
          /\ snapshots' =
               Append(snapshots, Snapshot(SomeObject(r.obj), diff, TRUE))
          /\ UNCHANGED <<error, isStreaming>>
        ELSE
          /\ pc' = "Done"
          /\ UNCHANGED <<object, snapshots, error, isStreaming>>
  /\ UNCHANGED <<req, text, pos, reader, lastRead, pending, fullText,
                 streamingText, diff, show, view, stale, apiVars>>

Next ==
  \/ \E d \in Diffs, t \in Texts : StartAnalysis(d, t)
  \/ FetchOk
  \/ FetchFail
  \/ \E n \in 1..MaxChunk : ReadChunk(n)
  \/ ReadDone
  \/ ReadError
  \/ ParseJSON

Spec == Init /\ [][Next]_vars

(* ------------- the read loop over an unconstrained source -------------- *)
MaxBuf == 5

\* Characters the answer is made of, as far as extraction can tell them
\* apart: braces, quote, backslash, any other character, the fence.
ExtractAlphabet == {"{", "}", "q", "b", "x", "F"}

\* The state of startAnalysis when the response has arrived and the loop
\* is about to read its first chunk.
InitExtract ==
  /\ pc = "Reading"
  /\ req = 1
  /\ text = <<>>
  /\ pos = 0
  /\ reader = "open"
  /\ lastRead = "response"
  /\ pending = FALSE
  /\ fullText = <<>>
  /\ streamingText = <<>>
  /\ object = NoObject
  /\ isStreaming = TRUE
  /\ error = "null"
  /\ snapshots = <<>>
  /\ diff = <<>>
  /\ show = ShowAll
  /\ view = <<>>
  /\ stale = NoStale
  /\ config = NotLoaded
  /\ http = NoExchange
  /\ isLoading = FALSE
  /\ submitted = <<>>

\* One turn of the loop: the source delivers the one-character chunk c.
ReceiveChunk(c) ==
  /\ pc = "Reading" /\ reader = "open"
  /\ Len(fullText) < MaxBuf
  /\ LET dec == decode(<<c>>, pending) IN
       /\ pending' = dec.pending
       /\ fullText' = accumulate(fullText, dec.out)
       /\ streamingText' = accumulate(fullText, dec.out)
  /\ lastRead' = "chunk"
  /\ UNCHANGED <<pc, req, text, pos, reader, object, isStreaming, error,
                 snapshots, diff, show, view, stale, apiVars>>

NextExtract ==
  \/ \E c \in ExtractAlphabet : ReceiveChunk(c)
  \/ ReadDone
  \/ ParseJSON

SpecExtract == InitExtract /\ [][NextExtract]_vars

(* ------------- the diff view over diff texts and issue lists ----------- *)
MaxDiffLen == 4
MaxIssues == 2

\* Characters of a diff text: the three markers, '@', a letter, the newline
\* and the two header words.
DiffAlphabet == {"+", "-", " ", "@", "a", "n", "DG", "IX"}

AllDiffs == UNION {[1..n -> DiffAlphabet] : n \in 1..MaxDiffLen}

\* "+++ a", "+a " and an empty last line; "-a", "+@", " +a".
FewDiffs ==
  { <<"+", "+", "+", " ", "a", "n", "+", "a", " ", "n">>,
    <<"-", "a", "n", "+", "@", "n", " ", "+", "a">> }

IssuePool ==
  { Issue(s, l, p) : s \in {"high", "low"}, l \in {JNull, Num(2), Num(7)},
                     p \in {JNull, Str(<<>>), Str(<<"a">>),
                            Str(<<"+", "a">>)} }

IssueSeqs == UNION {[1..n -> IssuePool] : n \in 0..MaxIssues}

ViewInputs == (AllDiffs \X {<<>>}) \cup (FewDiffs \X IssueSeqs)

\* The object the dashboard maps when the response carried these issues.
ObjectWith(is) == SomeObject([EmptyObject EXCEPT !.issues = Arr(is)])

\* The card is rendered when the diff is not empty: the dashboard holds a
\* diff d and an analysis with the issues is.
Render(d, is) ==
  /\ d # <<>>
  /\ diff' = d
  /\ object' = ObjectWith(is)
  /\ view' = DiffView(d, analysis(ObjectWith(is)), show)
  /\ UNCHANGED <<pc, req, text, pos, reader, lastRead, pending, fullText,
                 streamingText, isStreaming, error, snapshots, show, stale, apiVars>>

\* A filter button sets its flag and the view is rendered again.
SetShow(sh) ==
  /\ diff # <<>>
  /\ show' = sh
  /\ view' = DiffView(diff, analysis(object), sh)
  /\ UNCHANGED <<pc, req, text, pos, reader, lastRead, pending, fullText,
                 streamingText, object, isStreaming, error, snapshots, diff,
                 stale, apiVars>>

ToggleAdded == SetShow([show EXCEPT !.added = ~show.added])

ToggleRemoved == SetShow([show EXCEPT !.removed = ~show.removed])

ToggleContext == SetShow([show EXCEPT !.context = ~show.context])

\* One diff is rendered in a behaviour.
NextView ==
  \/ diff = <<>> /\ \E in \in ViewInputs : Render(in[1], in[2])
  \/ ToggleAdded
  \/ ToggleRemoved
  \/ ToggleContext

SpecView == Init /\ [][NextView]_vars

(* --------------- a request started while another streams --------------- *)
\* Bodies of the two overlapping responses.
ResubmitTexts ==
  { <<"{", "P_iss1", "}">>,
    <<"{", "P_iss0", ",", "P_statP", "}">>,
    <<"x", "x">> }

\* The "Fetch & Analyze" button is disabled by isLoading only, so the
\* handler runs again while the earlier response is still being read.  The
\* earlier invocation is not cancelled: it keeps its reader, its decoder and
\* its fullText, which are locals, and goes on awaiting its chunks.  The new
\* invocation starts as every invocation does.
Resubmit(d, t) ==
  /\ pc = "Reading" /\ reader = "open"
  /\ ~stale.active
  /\ req < MaxRequests
  /\ stale' = [active |-> TRUE, pc |-> "Reading", text |-> text, pos |-> pos,
               pending |-> pending, fullText |-> fullText]
  /\ pc' = "Reading"
  /\ req' = req + 1
  /\ text' = t
  /\ pos' = 0
  /\ reader' = "none"
  /\ lastRead' = "none"
  /\ pending' = FALSE
  /\ fullText' = <<>>
  /\ streamingText' = <<>>
  /\ object' = NoObject
  /\ isStreaming' = TRUE
  /\ error' = "null"
  /\ snapshots' = <<>>
  /\ diff' = d
  /\ UNCHANGED <<show, view, apiVars>>

\* A chunk of the earlier response arrives: its loop appends it to its own
\* fullText and calls setStreamingText with it.
StaleReadChunk(n) ==
  /\ stale.active /\ stale.pc = "Reading"
  /\ stale.pos + n <= Len(stale.text)
  /\ LET dec == decode(SubSeq(stale.text, stale.pos + 1, stale.pos + n),
                       stale.pending)
     IN /\ stale' = [stale EXCEPT !.pos = stale.pos + n,
                                  !.pending = dec.pending,
                                  !.fullText = accumulate(stale.fullText, dec.out)]
        /\ streamingText' = accumulate(stale.fullText, dec.out)
  /\ UNCHANGED <<pc, req, text, pos, reader, lastRead, pending, fullText,
                 object, isStreaming, error, snapshots, diff, show, view, apiVars>>

\* The earlier response ends: break.
StaleReadDone ==
  /\ stale.active /\ stale.pc = "Reading"
  /\ stale.pos = Len(stale.text)
  /\ stale' = [stale EXCEPT !.pc = "Draining"]
  /\ UNCHANGED <<pc, req, text, pos, reader, lastRead, pending, fullText,
                 streamingText, object, isStreaming, error, snapshots, diff,
                 show, view, apiVars>>

\* Step 4 of the earlier invocation, on its own fullText: setAnalysis, or
\* the catch block, act on the state of the component.
StaleParseJSON ==
  /\ stale.active /\ stale.pc = "Draining"
  /\ stale' = [stale EXCEPT !.pc = "Ended"]
  /\ LET r == parseStep(stale.fullText)
     IN IF r.kind = "throw" THEN
          /\ error' = "SyntaxError"
          /\ isStreaming' = FALSE
          /\ UNCHANGED <<object, snapshots>>
        ELSE IF r.kind = "set" THEN
          /\ object' = SomeObject(r.obj)
          /\ snapshots' =
               Append(snapshots, Snapshot(SomeObject(r.obj), diff, TRUE))
          /\ UNCHANGED <<error, isStreaming>>
        ELSE
          /\ UNCHANGED <<object, snapshots, error, isStreaming>>
  /\ UNCHANGED <<pc, req, text, pos, reader, lastRead, pending, fullText,
                 streamingText, diff, show, view, apiVars>>

NextResubmit ==
  \/ \E d \in Diffs, t \in ResubmitTexts : StartAnalysis(d, t)
  \/ \E d \in Diffs, t \in ResubmitTexts : Resubmit(d, t)
  \/ FetchOk
  \/ \E n \in 1..MaxChunk : ReadChunk(n)
  \/ ReadDone
  \/ ParseJSON
  \/ \E n \in 1..MaxChunk : StaleReadChunk(n)
  \/ StaleReadDone
  \/ StaleParseJSON

SpecResubmit == Init /\ [][NextResubmit]_vars

(* ------------------- requests to the route handlers -------------------- *)
\* process.env as the module finds it.
Envs ==
  [NEXTAUTH_URL : {Undef, Str(<<>>), Str(<<"https://app">>)},
   VERCEL_URL : {Undef, Str(<<>>), Str(<<"v.vercel.app">>)},
   GEMINI_KEY : {Str(<<"k">>)},
   GITHUB_KEY : {Undef}]
    \cup {[NEXTAUTH_URL |-> Undef, VERCEL_URL |-> Undef, GEMINI_KEY |-> Undef,
           GITHUB_KEY |-> Undef]}

\* The diff of a request body: missing, null, a number, and texts that are
\* empty, white space, shorter than, as long as and longer than the limit.
DiffValues ==
  {Undef, JNull, Num(5), Text(0, TRUE), Text(2, TRUE), Text(1, FALSE),
   Text(PromptLimit - 1, FALSE), Text(PromptLimit, FALSE),
   Text(PromptLimit + 1, FALSE)}

AnalyzeBodies == {Malformed} \cup {[ok |-> TRUE, diff |-> v] : v \in DiffValues}

ValidPrUrl == <<"w", "G", "/", "w", "/", "w", "/", "P", "/", "9">>

\* PR URLs: complete, with a trailing path, without a repository, without a
\* number, and a text that is no GitHub address.
PrUrls ==
  { ValidPrUrl,
    ValidPrUrl \o <<"/", "w">>,
    <<"G", "/", "w", "/", "P", "/", "9">>,
    <<"G", "/", "w", "/", "w", "/", "P", "/", "w">>,
    <<"w">> }

PrUrlValues == {Undef, JNull, Num(5), Str(<<>>)} \cup {Str(u) : u \in PrUrls}

GithubBodies ==
  {Malformed} \cup {[ok |-> TRUE, prUrl |-> v] : v \in PrUrlValues}

\* Outcomes of fetch(diffUrl): a body, a status that is not ok, a rejection.
FetchOutcomes ==
  {[rejected |-> FALSE, ok |-> TRUE, status |-> 200, text |-> d] : d \in Diffs}
    \cup {[rejected |-> FALSE, ok |-> FALSE, status |-> st, text |-> <<>>] :
            st \in {404, 500}}
    \cup {[rejected |-> TRUE, ok |-> FALSE, status |-> 0, text |-> <<>>]}

CallOutcomes == {"ok", "throw"}

\* The module is evaluated once, with the environment of the process.
LoadConfig(env) ==
  /\ ~config.loaded
  /\ config' = Config(env)
  /\ UNCHANGED <<pc, req, text, pos, reader, lastRead, pending, fullText,
                 streamingText, object, isStreaming, error, snapshots, diff,
                 show, view, stale, http, isLoading, submitted>>

\* A request is answered by a handler; r is the handler's answer.
Answer(r) ==
  /\ config.loaded
  /\ http' = r
  /\ UNCHANGED <<pc, req, text, pos, reader, lastRead, pending, fullText,
                 streamingText, object, isStreaming, error, snapshots, diff,
                 show, view, stale, config, isLoading, submitted>>

\* The exchange the dashboard has started is not answered yet.
Pending(body) == [route |-> "pending", body |-> body]

AnalyzeStreamText(body, outcome) ==
  /\ ~isLoading
  /\ Answer(analyzeStreamText(body, outcome))

\* The module of this route throws when GEMINI_KEY is not set.
AnalyzeStreamObject(body, outcome) ==
  /\ ~isLoading
  /\ config.loaded /\ Truthy(config.GEMINI_KEY)
  /\ Answer(analyzeStreamObject(body, outcome))

AnalyzeUnchecked(body, outcome) ==
  /\ ~isLoading
  /\ Answer(analyzeUnchecked(body, outcome))

\* A request to /api/github/diff from any client.
GithubDiff(body, fetched, meta) ==
  /\ ~isLoading
  /\ Answer(githubDiff(body, fetched, meta))

\* The request of handleFetchPR reaches the route.
GithubDiffForDashboard(fetched, meta) ==
  /\ isLoading /\ http.route = "pending"
  /\ Answer(githubDiff(http.body, fetched, meta))

(* --------------------------- handleFetchPR ----------------------------- *)
\* What the user has typed into the PR URL box.
TypedUrls == {<<>>, <<" ">>} \cup PrUrls

\* prUrl.trim() is empty
trimmedEmpty(u) == \A k \in 1..Len(u) : u[k] = " "

\* The click on "Fetch & Analyze", up to the await of fetch.
FetchPRClick(u) ==
  /\ ~isLoading
  /\ Len(submitted) < MaxRequests
  /\ IF trimmedEmpty(u) THEN
       /\ error' = "Please enter a GitHub PR URL"
       /\ UNCHANGED <<isLoading, diff, http>>
     ELSE
       /\ isLoading' = TRUE
       /\ error' = "null"
       /\ diff' = <<>>
       /\ http' = Pending([ok |-> TRUE, prUrl |-> Str(u)])
  /\ UNCHANGED <<pc, req, text, pos, reader, lastRead, pending, fullText,
                 streamingText, object, isStreaming, snapshots, show, view,
                 stale, config, submitted>>

\* Mutation: the diff is submitted whatever the response was.
FetchPRSettle_submitAlways ==
  /\ isLoading /\ http.route = "github"
  /\ diff' = IF http.diff.t = "str" THEN http.diff.v ELSE <<>>
  /\ submitted' = Append(submitted, diff')
  /\ isLoading' = FALSE
  /\ UNCHANGED <<pc, req, text, pos, reader, lastRead, pending, fullText,
                 streamingText, object, isStreaming, error, snapshots, show,
                 view, stale, config, http>>

\* The response has arrived: the rest of the try block, or the catch block
\* after the throw for !response.ok, and the finally block.
FetchPRSettle ==
  /\ isLoading /\ http.route = "github"
  /\ IF http.status \in 200..299 THEN
       /\ diff' = http.diff.v
       /\ submitted' = Append(submitted, http.diff.v)
       /\ UNCHANGED error
     ELSE
       /\ error' = "Failed to fetch PR diff"
       /\ UNCHANGED <<diff, submitted>>
  /\ isLoading' = FALSE
  /\ UNCHANGED <<pc, req, text, pos, reader, lastRead, pending, fullText,
                 streamingText, object, isStreaming, snapshots, show, view,
                 stale, config, http>>

\* fetch rejects (the network fails): catch and finally.
FetchPRReject ==
  /\ isLoading /\ http.route = "pending"
  /\ error' = "Failed to fetch PR"
  /\ isLoading' = FALSE
  /\ http' = NoExchange
  /\ UNCHANGED <<pc, req, text, pos, reader, lastRead, pending, fullText,
                 streamingText, object, isStreaming, snapshots, diff, show,
                 view, stale, config, submitted>>

NextApi ==
  \/ \E env \in Envs : LoadConfig(env)
  \/ \E b \in AnalyzeBodies, o \in CallOutcomes : AnalyzeStreamText(b, o)
  \/ \E b \in AnalyzeBodies, o \in CallOutcomes : AnalyzeStreamObject(b, o)
  \/ \E b \in AnalyzeBodies, o \in CallOutcomes : AnalyzeUnchecked(b, o)
  \/ \E b \in GithubBodies, f \in FetchOutcomes, o \in CallOutcomes :
       GithubDiff(b, f, o)
  \/ \E f \in FetchOutcomes, o \in CallOutcomes : GithubDiffForDashboard(f, o)
  \/ \E u \in TypedUrls : FetchPRClick(u)
  \/ FetchPRSettle
  \/ FetchPRReject

SpecApi == Init /\ [][NextApi]_vars

(* ======================== properties =================================== *)
\* The complete text, decoded in one piece.
WholeText(t) == decode(t, FALSE).out

\* What step 4 leaves in the analysis state when run on the text full.
ResultOf(full) ==
  LET r == parseStep(full)
  IN IF r.kind = "set" THEN SomeObject(r.obj) ELSE NoObject

\* C1: split-invariance.  Whatever the chunk boundaries were, once the
\* stream has been read to its end the analysis, the annotated lines and the
\* emitted snapshots are those computed from the complete text in one piece.
C1_SplitInvariance ==
  (lastRead = "done" /\ pc # "Draining") =>
    LET ref == ResultOf(WholeText(text)) IN
      /\ analysis(object) = analysis(ref)
      /\ annotatedLines(diff, analysis(object)) =
           annotatedLines(diff, analysis(ref))
      /\ snapshots = IF ref.set THEN <<Snapshot(ref, diff, TRUE)>> ELSE <<>>

C1_Witness ==
  /\ pc = "Done" /\ object.set
  /\ Len(text) > MaxChunk
  /\ \E i \in 1..Len(snapshots[1].annotatedLines) :
       snapshots[1].annotatedLines[i].issue.t = "obj"

\* C2: within one request the controller moves only along
\* Reading -> Draining -> Done, Reading -> Errored and Draining -> Errored;
\* Idle, Done and Errored are left only by starting a new request, which
\* enters Reading.
AllowedTransitions ==
  { <<"Reading", "Draining">>, <<"Draining", "Done">>,
    <<"Reading", "Errored">>, <<"Draining", "Errored">> }

C2_Transitions ==
  [][pc' # pc =>
       \/ (req' = req /\ <<pc, pc'>> \in AllowedTransitions)
       \/ (req' = req + 1 /\ pc \in {"Idle", "Done", "Errored"}
           /\ pc' = "Reading")]_vars

C2_Witness == pc = "Done" /\ lastRead = "done" /\ req = 1

\* C3: while Reading, a chunk emits a snapshot only if the text read so far
\* holds a candidate that parses and is accepted; otherwise no snapshot is
\* emitted and the analysis stays the one from before the chunk.
CoercionSucceeds(full) == parseStep(full).kind = "set"

LastSnapshot(q) == q[Len(q)]

\* C4: leaving Draining always emits one snapshot with isFinal = TRUE and
\* ends in Done; when the final pass fails that snapshot carries the
\* analysis of the last accepted candidate.
C4_FinalSnapshotAlways ==
  [][(pc = "Draining" /\ pc' # "Draining") =>
       /\ pc' = "Done"
       /\ Len(snapshots') = Len(snapshots) + 1
       /\ LastSnapshot(snapshots').isFinal
       /\ (~CoercionSucceeds(fullText) =>
             LastSnapshot(snapshots').analysis = analysis(object))]_vars

\* C5: in Done exactly one snapshot is final and it is the last one emitted.
C5_ExactlyOneFinal ==
  pc = "Done" =>
    /\ Len(snapshots) >= 1
    /\ LastSnapshot(snapshots).isFinal
    /\ \A i \in 1..(Len(snapshots) - 1) : ~snapshots[i].isFinal

\* C7: a candidate with balanced braces that JSON.parse rejects never moves
\* the controller to Errored, and never takes it out of Reading.
StructuralFailure(full) == parseStep(full).kind = "throw"

C7_ParseFailureAbsorbed ==
  [][/\ (StructuralFailure(fullText) /\ pc # "Errored" /\ lastRead' # "error")
          => pc' # "Errored"
     /\ (pc = "Reading" /\ pos' # pos /\ StructuralFailure(fullText'))
          => pc' = "Reading"]_vars

\* The default empty analysis of the data model.
DefaultAnalysis ==
  [isNull |-> FALSE, summary |-> Str(<<>>), overallRisk |-> Str(<<"low">>),
   issues |-> Arr(<<>>),
   statistics |-> [totalIssues |-> Num(0), highRisk |-> Num(0),
                   mediumRisk |-> Num(0), lowRisk |-> Num(0)]]

\* C8: a stream that ends without any closed candidate ends with a final
\* snapshot that carries the default empty analysis.
C8_TruncatedGivesDefault ==
  (pc = "Done" /\ ~jsonMatch(StripFences(fullText)).found) =>
    /\ snapshots # <<>>
    /\ LastSnapshot(snapshots).isFinal
    /\ LastSnapshot(snapshots).analysis = DefaultAnalysis

\* The analysis the data model prescribes for a parsed object: every absent
\* field at its default, every present field as supplied.
OrDefault(x, def) == IF x.t = "undef" THEN def ELSE x

WithDefaults(o) ==
  [isNull |-> FALSE,
   summary |-> OrDefault(o.summary, Str(<<>>)),
   overallRisk |-> OrDefault(o.overallRisk, Str(<<"low">>)),
   issues |-> OrDefault(o.issues, Arr(<<>>)),
   statistics |->
     [totalIssues |-> OrDefault(Field(o.statistics, "totalIssues"), Num(0)),
      highRisk |-> OrDefault(Field(o.statistics, "highRisk"), Num(0)),
      mediumRisk |-> OrDefault(Field(o.statistics, "mediumRisk"), Num(0)),
      lowRisk |-> OrDefault(Field(o.statistics, "lowRisk"), Num(0))]]

RiskValues == {Str(<<"high">>), Str(<<"medium">>), Str(<<"low">>)}

\* Every field of the object is absent or of its declared type.
WellTyped(o) ==
  /\ o.summary.t \in {"undef", "str"}
  /\ (o.overallRisk.t = "undef" \/ o.overallRisk \in RiskValues)
  /\ o.issues.t \in {"undef", "arr"}
  /\ o.statistics.t \in {"undef", "obj"}

\* C9: a structurally valid, well typed candidate always yields an
\* analysis: absent fields at their defaults, present fields as supplied.
C9_CoercionTotal ==
  (pc = "Done" /\ parseStep(fullText).kind \in {"set", "skip"}
     /\ WellTyped(parseStep(fullText).obj)) =>
    analysis(object) = WithDefaults(parseStep(fullText).obj)

\* C10: an analysis never carries a field of the wrong type or outside its
\* allowed set; in particular overallRisk is high, medium or low.
C10_FieldsValid ==
  object.set =>
    /\ analysis(object).overallRisk \in RiskValues
    /\ analysis(object).summary.t = "str"
    /\ analysis(object).issues.t = "arr"

(* ---------------- properties of the extraction ------------------------- *)
\* The string-aware brace scan of the design: from position i, with the
\* given depth and string state, the depth and string state at the end of s
\* and the first position at which the depth came back to zero (0 if none).
RECURSIVE BraceScan(_, _, _, _, _)
BraceScan(s, i, depth, inStr, close) ==
  IF i > Len(s) THEN [depth |-> depth, inStr |-> inStr, close |-> close]
  ELSE IF inStr THEN
    IF s[i] = "b" THEN
      IF i + 1 > Len(s)
      THEN [depth |-> depth, inStr |-> TRUE, close |-> close]
      ELSE BraceScan(s, i + 2, depth, TRUE, close)
    ELSE IF s[i] = "q" THEN BraceScan(s, i + 1, depth, FALSE, close)
    ELSE BraceScan(s, i + 1, depth, TRUE, close)
  ELSE IF s[i] = "q" THEN BraceScan(s, i + 1, depth, TRUE, close)
  ELSE IF s[i] = "{" THEN BraceScan(s, i + 1, depth + 1, FALSE, close)
  ELSE IF s[i] = "}" THEN
    BraceScan(s, i + 1, depth - 1, FALSE,
              IF depth = 1 /\ close = 0 THEN i ELSE close)
  ELSE BraceScan(s, i + 1, depth, FALSE, close)

\* The candidate of the design: from the first { to the first position at
\* which the depth is back to zero.
FirstClosed(full) ==
  LET s == StripFences(full) IN
    IF Positions(s, "{") = {} THEN NoMatch
    ELSE LET a == MinOf(Positions(s, "{"))
             r == BraceScan(s, a, 0, FALSE, 0)
         IN IF r.close = 0 THEN NoMatch
            ELSE [found |-> TRUE, str |-> SubSeq(s, a, r.close)]

\* C11: a candidate starts with {, ends at brace depth zero (braces in
\* string literals not counted) and holds no unterminated string literal.
C11_CandidateBalanced ==
  LET c == extract(fullText) IN
    c.found =>
      /\ c.str[1] = "{"
      /\ BraceScan(c.str, 1, 0, FALSE, 0).depth = 0
      /\ ~BraceScan(c.str, 1, 0, FALSE, 0).inStr

\* C12: the candidate runs from the first { to the first later position at
\* which the string-aware depth returns to zero.
C12_FirstClosedObject == extract(fullText) = FirstClosed(fullText)

\* C13: over the growing buffer extraction returns none exactly while the
\* first object is not closed, and once it has returned a candidate it
\* returns that same candidate for every longer buffer.
C13_StableCandidate ==
  [][(pc = "Reading" /\ pc' = "Reading") =>
       /\ (extract(fullText').found <=> FirstClosed(fullText').found)
       /\ (extract(fullText).found => extract(fullText') = extract(fullText))
    ]_vars

\* Brace-free text that may precede the object.
Prose == { <<"x">>, <<"x", "q", "x">>, <<"F", "x">> }

\* C14: leading brace-free prose and a wrapping pair of code fences do not
\* change the candidate.
C14_ProseAndFencesIgnored ==
  /\ \A p \in Prose : extract(p \o fullText) = extract(fullText)
  /\ extract(<<"J">> \o fullText \o <<"F">>) = extract(fullText)
  /\ extract(<<"F">> \o fullText \o <<"F">>) = extract(fullText)

C14_Witness ==
  /\ pc = "Done" /\ fullText # <<>> /\ fullText[1] = "{"
  /\ extract(fullText).found
  /\ extract(<<"x", "q", "x">> \o fullText).str = extract(fullText).str


(* ------------------------- the diff view ------------------------------- *)
\* What the parse of the text gives for each line: its number, kind, content.
Parsed(v) ==
  [i \in 1..Len(v) |->
     [index |-> v[i].index, kind |-> v[i].kind, content |-> v[i].content]]

\* C15: the line numbers of the rendered lines are 1, 2, ..., n in order
\* (1-based, unique, strictly increasing), and rendering the same text again
\* gives the same numbers, kinds and contents.
C15_IndicesOneToN ==
  /\ \A i \in 1..Len(view) : view[i].index = i
  /\ \A i, j \in 1..Len(view) : i < j => view[i].index < view[j].index
  /\ diff # <<>> => Parsed(view) = Parsed(DiffView(diff, NoAnalysis, ShowAll))

\* A text of three lines that was rendered again after a filter changed.
C15_Witness ==
  /\ Len(view) >= 3
  /\ show # ShowAll


\* The first n characters of the line (all of it when it is shorter).
Prefix(l, n) == SubSeq(l, 1, IF Len(l) < n THEN Len(l) ELSE n)

HeaderPrefix(l) ==
  \/ Prefix(l, 1) \in {<<"DG">>, <<"IX">>}
  \/ Prefix(l, 3) \in {<<"-", "-", "-">>, <<"+", "+", "+">>}

\* The kind the prefix rule gives, each case stated on its own.
KindByPrefix(l) ==
  CASE HeaderPrefix(l) -> "FileHeader"
    [] ~HeaderPrefix(l) /\ Prefix(l, 2) = <<"@", "@">> -> "HunkHeader"
    [] ~HeaderPrefix(l) /\ Prefix(l, 1) = <<"+">> -> "Added"
    [] ~HeaderPrefix(l) /\ Prefix(l, 1) = <<"-">> -> "Removed"
    [] Prefix(l, 1) = <<" ">> -> "Context"
    [] OTHER -> "Metadata"

\* C16: every line of every diff text gets exactly one kind, by prefix, the
\* header prefixes first: 'diff --git', 'index ', '---', '+++' give
\* FileHeader, '@@' HunkHeader, '+' Added, '-' Removed, a leading space
\* Context and anything else, the empty line included, Metadata; every line
\* of the text is rendered, none fails.
C16_KindByPrefix ==
  diff # <<>> =>
    /\ Len(view) = Len(split(diff))
    /\ \A i \in 1..Len(view) :
         /\ view[i].line = split(diff)[i]
         /\ view[i].kind = KindByPrefix(view[i].line)
         /\ (view[i].line = <<>> => view[i].kind = "Metadata")

\* A text with a '+++' header, an added line and an empty line.
C16_Witness ==
  /\ Len(view) = 3
  /\ view[1].kind = "FileHeader" /\ Prefix(view[1].line, 1) = <<"+">>
  /\ view[2].kind = "Added"
  /\ view[3].line = <<>> /\ view[3].kind = "Metadata"


\* The number of newline characters of the text.
Newlines(d) == Cardinality({i \in 1..Len(d) : d[i] = "n"})

\* C17: the content of an added, removed or context line is the line without
\* its first character and the content of any other line is the whole line;
\* a text whose lines are all newline-terminated gives one rendered line per
\* terminated line, none for the trailing newline.
C17_ContentAndNoExtraLine ==
  diff # <<>> =>
    /\ \A i \in 1..Len(view) :
         IF view[i].kind \in {"Added", "Removed", "Context"}
           THEN /\ view[i].line # <<>>
                /\ view[i].content = Tail(view[i].line)
           ELSE view[i].content = view[i].line
    /\ diff[Len(diff)] = "n" => Len(view) = Newlines(diff)


(* ------------------------- correlation --------------------------------- *)
\* The issues of the analysis the view was rendered with.
ViewIssues == IF object.set THEN analysis(object).issues.v ELSE <<>>

\* issue.lineNumber equals the number of the line.
MatchesNumber(issue, i) ==
  issue.v.lineNumber.t = "num" /\ issue.v.lineNumber.v = i

\* A non-empty issue.filePath occurs in the text.
MatchesPath(issue, txt) ==
  /\ issue.v.filePath.t = "str" /\ issue.v.filePath.v # <<>>
  /\ \E k \in 0..(Len(txt) - Len(issue.v.filePath.v)) :
       SubSeq(txt, k + 1, k + Len(issue.v.filePath.v)) = issue.v.filePath.v

\* C18 as stated: when some issue has the number of the line, the issue
\* shown on the line is one of those, also when an issue that matches only by
\* filePath comes earlier in the sequence.
C18_LineNumberPriority ==
  \A i \in 1..Len(view) :
    (\E k \in 1..Len(ViewIssues) : MatchesNumber(ViewIssues[k], i))
      => /\ view[i].issue.t # "undef"
         /\ MatchesNumber(view[i].issue, i)

\* C18: the issue shown on a line matches it by number or by filePath, the
\* two criteria with equal priority: no issue of the same severity that
\* matches the line by either criterion comes earlier in the sequence.
C18_FirstMatchEitherCriterion ==
  \A i \in 1..Len(view) :
    view[i].issue.t # "undef" =>
      /\ MatchesNumber(view[i].issue, i)
           \/ MatchesPath(view[i].issue, view[i].line)
      /\ \E k \in 1..Len(ViewIssues) :
           /\ ViewIssues[k] = view[i].issue
           /\ \A j \in 1..(k - 1) :
                (MatchesNumber(ViewIssues[j], i)
                   \/ MatchesPath(ViewIssues[j], view[i].line))
                  => ViewIssues[j].v.severity # view[i].issue.v.severity

\* Line 2 shows an issue that matches it only by filePath although a later
\* issue of the same severity has lineNumber 2.
C18_Witness ==
  /\ Len(view) >= 2 /\ Len(ViewIssues) = 2
  /\ view[2].issue = ViewIssues[1]
  /\ ~MatchesNumber(ViewIssues[1], 2)
  /\ MatchesPath(ViewIssues[1], view[2].line)
  /\ MatchesNumber(ViewIssues[2], 2)
  /\ ViewIssues[2].v.severity = ViewIssues[1].v.severity


\* High > Medium > Low
SeverityRank(issue) ==
  CASE issue.v.severity = Str(<<"high">>) -> 3
    [] issue.v.severity = Str(<<"medium">>) -> 2
    [] OTHER -> 1

\* The issues that match line i at the level the issue shown on it matches:
\* by number when that one does, by filePath otherwise.
SameLevel(i) ==
  {k \in 1..Len(ViewIssues) :
     IF MatchesNumber(view[i].issue, i)
       THEN MatchesNumber(ViewIssues[k], i)
       ELSE MatchesPath(ViewIssues[k], view[i].line)}

\* C19: among the issues that match a line at the same priority level the
\* one shown has the highest severity, and among those of that severity it is
\* the first of the sequence.
C19_HighestSeverityWins ==
  \A i \in 1..Len(view) :
    view[i].issue.t # "undef" =>
      /\ \A k \in SameLevel(i) :
           SeverityRank(ViewIssues[k]) <= SeverityRank(view[i].issue)
      /\ \E k \in SameLevel(i) :
           /\ ViewIssues[k] = view[i].issue
           /\ \A j \in SameLevel(i) :
                j < k => SeverityRank(ViewIssues[j])
                           < SeverityRank(view[i].issue)


\* C20: a line of any kind has an issue on it exactly when some issue has
\* the number of the line or a non-empty filePath contained in the content of
\* the line, and that issue is one of the issues of the analysis.
C20_EntryIffMatch ==
  \A i \in 1..Len(view) :
    /\ view[i].issue.t # "undef"
         <=> \E k \in 1..Len(ViewIssues) :
               \/ MatchesNumber(ViewIssues[k], i)
               \/ MatchesPath(ViewIssues[k], view[i].content)
    /\ view[i].issue.t # "undef"
         => \E k \in 1..Len(ViewIssues) : ViewIssues[k] = view[i].issue


\* Issue k matches no line of the view: no line has its number and its
\* filePath is absent, empty or in no line.
Uncorrelatable(k) ==
  \A i \in 1..Len(view) :
    /\ ~MatchesNumber(ViewIssues[k], i)
    /\ ~MatchesPath(ViewIssues[k], view[i].line)

\* C21: an issue that matches no line is shown on no line, raises no error,
\* and is still in analysis.issues, unchanged and at its position.
C21_OrphanIssueKept ==
  diff # <<>> =>
    /\ error = "null"
    /\ Len(ViewIssues) = Len(object.obj.issues.v)
    /\ \A k \in 1..Len(ViewIssues) :
         Uncorrelatable(k) =>
           /\ \A i \in 1..Len(view) :
                view[i].issue.t = "undef" \/ view[i].issue # ViewIssues[k]
           /\ ViewIssues[k] = object.obj.issues.v[k]

\* Two issues: the first matches no line (one with no number and no path, or
\* an empty path, or a number past the last line), the second is shown.
C21_Witness ==
  /\ Len(view) >= 2 /\ Len(ViewIssues) = 2
  /\ Uncorrelatable(1)
  /\ ViewIssues[1].v.filePath.t \in {"null", "str"}
  /\ \E i \in 1..Len(view) : view[i].issue.t # "undef"


(* --------------------------- statistics -------------------------------- *)
StatFields == {"totalIssues", "highRisk", "mediumRisk", "lowRisk"}

\* The value the producer's text carries for a field of statistics:
\* undefined when the text has no statistics member or the member lacks it.
Supplied(t, f) ==
  LET at == {i \in 1..Len(t) :
               t[i] \in PairTokens /\ PairKey(t[i]) = "statistics"}
  IN IF at = {} THEN Undef ELSE Field(PairValue(t[MaxOf(at)]), f)

\* C22: in every snapshot each field of statistics is the value the producer
\* supplied for it, or 0 when it is absent; none is counted from the issues.
C22_StatisticsAsSupplied ==
  \A k \in 1..Len(snapshots) : \A f \in StatFields :
    snapshots[k].analysis.statistics[f] =
      IF Supplied(text, f).t = "undef" THEN Num(0) ELSE Supplied(text, f)

\* A snapshot whose totalIssues is not the number of its issues.
C22_Witness ==
  /\ Len(snapshots) = 1
  /\ Supplied(text, "totalIssues").t = "num"
  /\ snapshots[1].analysis.statistics.totalIssues.v
       # Len(snapshots[1].analysis.issues.v)


(* ----------------------- overlapping requests -------------------------- *)
\* C23: once a newer request has been started while an earlier one streams,
\* what is shown is computed from the newer request only: the streamed text
\* is the newer request's buffer, the analysis and every snapshot are those
\* of the newer buffer and diff, and no step of the earlier request changes
\* the streamed text, the analysis, the snapshots or the error state.
C23_RequestsIsolated ==
  [][stale'.active =>
       /\ streamingText' = fullText'
       /\ object'.set => object' = ResultOf(fullText')
       /\ \A k \in 1..Len(snapshots') :
            snapshots'[k] = Snapshot(ResultOf(fullText'), diff', TRUE)
       /\ (stale.active /\ stale' # stale) =>
            UNCHANGED <<streamingText, object, snapshots, error,
                        isStreaming>>]_vars


(* --------------------------- the accumulator --------------------------- *)
\* s is an initial part of t.
IsPrefix(s, t) == Len(s) <= Len(t) /\ SubSeq(t, 1, Len(s)) = s

MissingOrEmptyDiff(body) ==
  /\ body.ok
  /\ \/ body.diff.t \in {"undef", "null"}
     \/ body.diff.t = "text" /\ body.diff.len = 0

\* C25: the analyze endpoint answers 400 without calling the model when the
\* diff is missing or empty, and answers 500 only when the call of the model
\* failed.
C25_AnalyzeStatus ==
  http.route = "analyze" =>
    /\ MissingOrEmptyDiff(http.body) =>
         http.status = 400 /\ http.calls = <<>>
    /\ http.status = 500 => http.calls = <<Thrown("model")>>


\* C26: the diff text in the prompt is the prefix of the submitted diff of
\* length min(length, 30000).
C26_PromptPrefix ==
  (http.route = "analyze" /\ http.calls # <<>>) =>
    /\ http.prompt.t = "text"
    /\ http.prompt.len <= PromptLimit
    /\ http.prompt.len =
         IF http.body.diff.len < PromptLimit THEN http.body.diff.len
         ELSE PromptLimit


\* The prUrl of the body is missing or has no github.com/owner/repo/pull/n.
NoPullRequest(body) ==
  \/ ~body.ok
  \/ body.prUrl.t # "str"
  \/ ~prUrlMatches(body.prUrl.v)

\* C27: the GitHub diff endpoint answers 400 and makes no outbound request
\* when prUrl is missing or names no pull request.
C27_BadUrlRejected ==
  (http.route = "github" /\ NoPullRequest(http.body)) =>
    http.status = 400 /\ http.calls = <<>>

OkResponse == http.route = "github" /\ http.status \in 200..299

\* C29: submit is called only after an ok response and with the diff of
\* that response; a blank prUrl starts no fetch; a fetch that fails or is
\* answered not ok starts no analysis and sets an error message; isLoading
\* is false again when the handler has finished.
C29_SubmitAfterOkFetch ==
  [][/\ submitted' # submitted =>
          /\ isLoading /\ OkResponse
          /\ submitted' = Append(submitted, http.diff.v)
          /\ diff' = http.diff.v
     /\ (~isLoading /\ isLoading') =>
          /\ http'.route = "pending"
          /\ ~trimmedEmpty(http'.body.prUrl.v)
     /\ (isLoading /\ http' # http /\ http'.route # "github") =>
          /\ submitted' = submitted
          /\ error' # "null"
          /\ ~isLoading'
     /\ isLoading' => http'.route \in {"pending", "github"}
     /\ (isLoading /\ http' = http
           /\ (error' # error \/ submitted' # submitted \/ diff' # diff)) =>
          /\ ~isLoading'
          /\ OkResponse => Len(submitted') = Len(submitted) + 1
          /\ ~OkResponse => submitted' = submitted /\ error' # "null"]_vars

\* One fetch was answered ok and submitted, the next one was not ok.
C29_Witness ==
  /\ Len(submitted) = 1 /\ ~isLoading
  /\ http.route = "github" /\ http.status = 404
  /\ error = "Failed to fetch PR diff"

(* --------------------------- lib/config.ts ----------------------------- *)
\* NEXTAUTH_URL when it is set, else https://VERCEL_URL when that is set,
\* else the local address.
ResolvedUrl(env) ==
  IF Truthy(env.NEXTAUTH_URL) THEN env.NEXTAUTH_URL
  ELSE IF Truthy(env.VERCEL_URL)
    THEN Str(<<"https://">> \o env.VERCEL_URL.v)
  ELSE Str(<<"http://localhost:3000">>)

\* C30: NEXTAUTH_URL is the environment's NEXTAUTH_URL when set, otherwise
\* https://<VERCEL_URL> when VERCEL_URL is set, otherwise
\* http://localhost:3000.
C30_NextAuthUrl ==
  config.loaded => config.NEXTAUTH_URL = ResolvedUrl(config.env)

====
